---- MODULE Spec2Model ----
(***************************************************************************)
(* The evaluation-and-consequence engine of munich-path: daily check-in,   *)
(* streak counters, lock window, penalties and achievements, as written in *)
(* services/goal_service.py, database/db_manager.py, api/routes.py and     *)
(* app.py, and the password reset of services/auth_service.py.             *)
(*                                                                         *)
(* Calendar dates are day numbers 1, 2, ...; a date stored in a TEXT       *)
(* column is the strftime('%Y-%m-%d') text of the date, kept apart from    *)
(* the date itself, and NULL is the absent text.  Hours are counted in     *)
(* half hours (the step of the check-in form), so 2.0 h is 4 and 3.0 h is  *)
(* 6.  REAL amounts are whole numbers of currency units.                   *)
(***************************************************************************)
EXTENDS Integers, Sequences, FiniteSets, TLC

VARIABLES
    today,          \* datetime.now().date()
    users,          \* table users: id -> row (the streak and lock columns)
    daily_goals,    \* table daily_goals: rows in insertion order
    penalties,      \* table penalties: rows in insertion order
    achievements,   \* table achievements: rows in insertion order
    last,           \* history: the last request served, its inputs, result and the tables before it
    day_open,       \* history: the users table as it was when today began
    day_log,        \* history: per user, the requests served today, in order
    passRun,        \* history: per user, n if all that happened since registration is n passing
                    \*          check-ins on n consecutive dates (one per date), -1 otherwise
    passPath,       \* history: per user, the entry paths the passing check-ins came through
    ops,            \* history: number of requests served so far
    inflight,       \* per thread of control, the request it is serving: statement reached, values read
    episode,        \* history: the tables when the requests now overlapping began, and those requests
    auth            \* the credential columns of table users, datetime.now(), and history of the resets

vars == <<today, users, daily_goals, penalties, achievements, last, day_open, day_log, passRun, passPath, ops, inflight, episode, auth>>

(***************************************************************************)
(* Bounds of the model                                                     *)
(***************************************************************************)
MaxDate == 3        \* dates 1..MaxDate in Spec
MaxOps == 3         \* requests served in one behaviour of Spec
WeekDays == 8       \* dates 1..WeekDays in SpecWeek
EvalOps == 1        \* requests served in one behaviour of SpecEval
AuthOps == 4        \* calls and clock steps in one behaviour of SpecAuth
MaxTokens == 2      \* reset tokens generated in one behaviour of SpecAuth
ConcOps == 3        \* requests taken up in one behaviour of SpecConc

Users == {1, 2}
Keys == {"german_hours", "tech_hours", "applications_sent", "words_learned"}

(***************************************************************************)
(* Stored text and NULL                                                    *)
(***************************************************************************)
NULL == [null |-> TRUE, ymd |-> 0]
strftime(d) == [null |-> FALSE, ymd |-> d]
strptime(s) == s.ymd

timedelta_days == 1

(***************************************************************************)
(* The tables as one value, so that a handler is a function of the tables  *)
(***************************************************************************)
DB == [users |-> users, daily_goals |-> daily_goals,
       penalties |-> penalties, achievements |-> achievements]

Commit(db) ==
    /\ users' = db.users
    /\ daily_goals' = db.daily_goals
    /\ penalties' = db.penalties
    /\ achievements' = db.achievements

\* A row of users as create_user_db leaves it (column defaults).
NewUserRow ==
    [current_streak |-> 0, total_streak |-> 0, is_locked |-> 0,
     lock_end_date |-> NULL, last_checkin |-> NULL]

(***************************************************************************)
(* database/db_manager.py                                                  *)
(***************************************************************************)
\* SELECT * FROM users WHERE id = ?
get_user(db, user_id) == db.users[user_id]

\* Rows of daily_goals WHERE user_id = ? AND date = ?
GoalRowsAt(db, user_id, date) ==
    {i \in DOMAIN db.daily_goals :
        /\ db.daily_goals[i].user_id = user_id
        /\ db.daily_goals[i].date = strftime(date)}

\* The daily record written with a plain INSERT, no look for an existing row.
log_daily_goals_db_insert_only(db, user_id, date, german_hours, tech_hours, applications_sent, words_learned, checkin_completed) ==
    [db EXCEPT !.daily_goals =
        Append(@, [user_id |-> user_id, date |-> strftime(date),
                   german_hours |-> german_hours, tech_hours |-> tech_hours,
                   applications_sent |-> applications_sent,
                   words_learned |-> words_learned,
                   checkin_completed |-> checkin_completed])]

\* SELECT-then-UPDATE-or-INSERT of the daily record.
log_daily_goals_db(db, user_id, date, german_hours, tech_hours, applications_sent, words_learned, checkin_completed) ==
    LET existing == GoalRowsAt(db, user_id, date)
        row == [user_id |-> user_id, date |-> strftime(date),
                german_hours |-> german_hours, tech_hours |-> tech_hours,
                applications_sent |-> applications_sent,
                words_learned |-> words_learned,
                checkin_completed |-> checkin_completed]
    IN  IF existing # {}
        THEN [db EXCEPT !.daily_goals =
                 [i \in DOMAIN @ |-> IF i \in existing THEN row ELSE @[i]]]
        ELSE [db EXCEPT !.daily_goals = Append(@, row)]

\* The second statement of log_daily_goals_db, UPDATE or INSERT, chosen by what
\* its SELECT found on the same connection a moment before.
log_daily_goals_db_write(db, existing, user_id, date, german_hours, tech_hours, applications_sent, words_learned, checkin_completed) ==
    LET row == [user_id |-> user_id, date |-> strftime(date),
                german_hours |-> german_hours, tech_hours |-> tech_hours,
                applications_sent |-> applications_sent,
                words_learned |-> words_learned,
                checkin_completed |-> checkin_completed]
    IN  IF existing
        THEN [db EXCEPT !.daily_goals =
                 [i \in DOMAIN @ |-> IF i \in GoalRowsAt(db, user_id, date)
                                     THEN row ELSE @[i]]]
        ELSE [db EXCEPT !.daily_goals = Append(@, row)]

\* fetchone() of SELECT checkin_completed ...: the first matching row, if any.
get_daily_goal_completion_status(db, user_id, date) ==
    LET rows == GoalRowsAt(db, user_id, date)
    IN  IF rows = {} THEN FALSE
        ELSE LET first == CHOOSE i \in rows : \A j \in rows : i <= j
             IN  db.daily_goals[first].checkin_completed = 1

\* The streak UPDATE without the lock_end_date column.
update_user_streak_data_no_lock_end(db, user_id, current_streak, total_streak, is_locked, lock_end_date, last_checkin) ==
    [db EXCEPT !.users[user_id] =
        [current_streak |-> current_streak,
         total_streak |-> total_streak,
         is_locked |-> is_locked,
         lock_end_date |-> @.lock_end_date,
         last_checkin |-> IF last_checkin # 0 THEN strftime(last_checkin) ELSE NULL]]

\* UPDATE users SET current_streak, total_streak, is_locked, lock_end_date, last_checkin.
\* lock_end_date and last_checkin arrive as dates or None (0) and are stored as text or NULL.
update_user_streak_data(db, user_id, current_streak, total_streak, is_locked, lock_end_date, last_checkin) ==
    [db EXCEPT !.users[user_id] =
        [current_streak |-> current_streak,
         total_streak |-> total_streak,
         is_locked |-> is_locked,
         lock_end_date |-> IF lock_end_date # 0 THEN strftime(lock_end_date) ELSE NULL,
         last_checkin |-> IF last_checkin # 0 THEN strftime(last_checkin) ELSE NULL]]

\* The unlock UPDATE without its WHERE id = ?.
unlock_app_db_every_user(db, user_id) ==
    [db EXCEPT !.users = [u \in DOMAIN @ |->
                            [@[u] EXCEPT !.is_locked = 0, !.lock_end_date = NULL]]]

\* UPDATE users SET is_locked = 0, lock_end_date = NULL
unlock_app_db(db, user_id) ==
    [db EXCEPT !.users[user_id].is_locked = 0,
               !.users[user_id].lock_end_date = NULL]

\* The reset also setting total_streak to 0.
reset_streak_and_unlock_db_total(db, user_id) ==
    [db EXCEPT !.users[user_id].current_streak = 0,
               !.users[user_id].total_streak = 0,
               !.users[user_id].is_locked = 0,
               !.users[user_id].lock_end_date = NULL]

\* UPDATE users SET current_streak = 0, is_locked = 0, lock_end_date = NULL
reset_streak_and_unlock_db(db, user_id) ==
    [db EXCEPT !.users[user_id].current_streak = 0,
               !.users[user_id].is_locked = 0,
               !.users[user_id].lock_end_date = NULL]

\* INSERT INTO achievements.  The table declares no UNIQUE constraint, so the
\* insert never raises IntegrityError and the function returns True.
add_achievement_db(db, user_id, achievement_name, date_earned) ==
    [db |-> [db EXCEPT !.achievements =
                Append(@, [user_id |-> user_id,
                           achievement_name |-> achievement_name,
                           date_earned |-> strftime(date_earned)])],
     ret |-> TRUE]

\* INSERT OR REPLACE keyed on the user: the new penalty takes the place of the
\* user's earlier ones.
add_penalty_db_replace(db, user_id, amount, reason, date) ==
    [db EXCEPT !.penalties =
        Append(SelectSeq(@, LAMBDA row : row.user_id # user_id),
               [user_id |-> user_id, amount |-> amount, reason |-> reason,
                date |-> strftime(date), paid |-> 0])]

\* INSERT INTO penalties (paid takes its column default 0).
add_penalty_db(db, user_id, amount, reason, date) ==
    [db EXCEPT !.penalties =
        Append(@, [user_id |-> user_id, amount |-> amount, reason |-> reason,
                   date |-> strftime(date), paid |-> 0])]

(***************************************************************************)
(* services/goal_service.py                                                *)
(***************************************************************************)
required_german_hours == 4
required_tech_hours == 6
required_applications_sent == 5
required_words_learned == 50

MissedGoalPenalty == 10
MissedGoalReason == "Daily goals not met"
CompletedMsg == "Daily goals completed!"
NotMetMsg == "Daily goals not met. App locked for 24 hours and penalty applied."

\* goals_met with the German threshold taken as exclusive.
goals_met_exclusive(german_hours, tech_hours, applications_sent, words_learned) ==
    /\ german_hours > required_german_hours
    /\ tech_hours >= required_tech_hours
    /\ applications_sent >= required_applications_sent
    /\ words_learned >= required_words_learned

goals_met(german_hours, tech_hours, applications_sent, words_learned) ==
    /\ german_hours >= required_german_hours
    /\ tech_hours >= required_tech_hours
    /\ applications_sent >= required_applications_sent
    /\ words_learned >= required_words_learned

\* update_user_streak with the lock ending on the day of the Fail itself.
update_user_streak_no_timedelta(db, now, user_id, streak_broken) ==
    LET user == get_user(db, user_id)
        last_checkin == now
    IN  IF streak_broken
        THEN update_user_streak_data(db, user_id, 0, user.total_streak, 1,
                                     now, last_checkin)
        ELSE update_user_streak_data(db, user_id, user.current_streak + 1,
                                     user.total_streak + 1, user.is_locked,
                                     0, last_checkin)

update_user_streak(db, now, user_id, streak_broken) ==
    LET user == get_user(db, user_id)
        last_checkin == now
    IN  IF streak_broken
        THEN update_user_streak_data(db, user_id, 0, user.total_streak, 1,
                                     now + timedelta_days, last_checkin)
        ELSE update_user_streak_data(db, user_id, user.current_streak + 1,
                                     user.total_streak + 1, user.is_locked,
                                     0, last_checkin)

add_penalty(db, now, user_id, amount, reason) ==
    add_penalty_db(db, user_id, amount, reason, now)

add_achievement(db, now, user_id, achievement_name) ==
    add_achievement_db(db, user_id, achievement_name, now)

unlock_app(db, user_id) == unlock_app_db(db, user_id)

reset_streak_and_unlock(db, user_id) == reset_streak_and_unlock_db(db, user_id)

\* check_daily_completion asking for the day before.
check_daily_completion_yesterday(db, now, user_id) ==
    get_daily_goal_completion_status(db, user_id, now - 1)

check_daily_completion(db, now, user_id) ==
    get_daily_goal_completion_status(db, user_id, now)

\* log_daily_goals storing checkin_completed = 1 whatever the verdict.
log_daily_goals_completed_flag(db, now, user_id, german_hours, tech_hours, applications_sent, words_learned) ==
    LET met == goals_met(german_hours, tech_hours, applications_sent, words_learned)
        logged == log_daily_goals_db(db, user_id, now, german_hours, tech_hours,
                                     applications_sent, words_learned, 1)
    IN  IF met
        THEN [db |-> update_user_streak(logged, now, user_id, FALSE),
              ret |-> <<TRUE, CompletedMsg>>]
        ELSE [db |-> add_penalty(update_user_streak(logged, now, user_id, TRUE),
                                 now, user_id, MissedGoalPenalty, MissedGoalReason),
              ret |-> <<FALSE, NotMetMsg>>]

\* log_daily_goals leaving the penalty of a Fail to its callers.
log_daily_goals_without_penalty(db, now, user_id, german_hours, tech_hours, applications_sent, words_learned) ==
    LET met == goals_met(german_hours, tech_hours, applications_sent, words_learned)
        checkin_completed == IF met THEN 1 ELSE 0
        logged == log_daily_goals_db(db, user_id, now, german_hours, tech_hours,
                                     applications_sent, words_learned,
                                     checkin_completed)
    IN  IF met
        THEN [db |-> update_user_streak(logged, now, user_id, FALSE),
              ret |-> <<TRUE, CompletedMsg>>]
        ELSE [db |-> update_user_streak(logged, now, user_id, TRUE),
              ret |-> <<FALSE, NotMetMsg>>]

\* Returns the tables after the call and the (bool, message) tuple.
log_daily_goals(db, now, user_id, german_hours, tech_hours, applications_sent, words_learned) ==
    LET met == goals_met(german_hours, tech_hours, applications_sent, words_learned)
        checkin_completed == IF met THEN 1 ELSE 0
        logged == log_daily_goals_db(db, user_id, now, german_hours, tech_hours,
                                     applications_sent, words_learned,
                                     checkin_completed)
    IN  IF met
        THEN [db |-> update_user_streak(logged, now, user_id, FALSE),
              ret |-> <<TRUE, CompletedMsg>>]
        ELSE [db |-> add_penalty(update_user_streak(logged, now, user_id, TRUE),
                                 now, user_id, MissedGoalPenalty, MissedGoalReason),
              ret |-> <<FALSE, NotMetMsg>>]

\* The store writes of a check-in. Each db_manager function catches
\* sqlite3.Error, writes nothing and returns False; `down` is the set of
\* writes that meet such an error during a call.
StoreWrites == {"log_daily_goals_db", "update_user_streak_data", "add_penalty_db"}

FailedMsg == "Failed to log daily goals."

\* update_user_streak: the tables afterwards and the boolean it returns.
update_user_streak_store(db, now, user_id, streak_broken, down) ==
    IF "update_user_streak_data" \in down
    THEN [db |-> db, ret |-> FALSE]
    ELSE [db |-> update_user_streak(db, now, user_id, streak_broken), ret |-> TRUE]

\* add_penalty: the tables afterwards and the boolean it returns.
add_penalty_store(db, now, user_id, amount, reason, down) ==
    IF "add_penalty_db" \in down
    THEN [db |-> db, ret |-> FALSE]
    ELSE [db |-> add_penalty(db, now, user_id, amount, reason), ret |-> TRUE]

\* log_daily_goals over a store whose writes in `down` fail: the tables
\* afterwards, the (bool, message) tuple, and the writes that were made and
\* failed. The values update_user_streak and add_penalty return are dropped.
log_daily_goals_store(db, now, user_id, german_hours, tech_hours, applications_sent, words_learned, down) ==
    LET met == goals_met(german_hours, tech_hours, applications_sent, words_learned)
        checkin_completed == IF met THEN 1 ELSE 0
        success == "log_daily_goals_db" \notin down
        logged == log_daily_goals_db(db, user_id, now, german_hours, tech_hours,
                                     applications_sent, words_learned,
                                     checkin_completed)
        passed == update_user_streak_store(logged, now, user_id, FALSE, down)
        broken == update_user_streak_store(logged, now, user_id, TRUE, down)
        fined == add_penalty_store(broken.db, now, user_id, MissedGoalPenalty,
                                   MissedGoalReason, down)
    IN  IF ~success
        THEN [db |-> db, ret |-> <<FALSE, FailedMsg>>,
              lost |-> {"log_daily_goals_db"}]
        ELSE IF met
        THEN [db |-> passed.db, ret |-> <<TRUE, CompletedMsg>>,
              lost |-> IF passed.ret THEN {} ELSE {"update_user_streak_data"}]
        ELSE [db |-> fined.db, ret |-> <<FALSE, NotMetMsg>>,
              lost |-> (IF broken.ret THEN {} ELSE {"update_user_streak_data"})
                       \cup (IF fined.ret THEN {} ELSE {"add_penalty_db"})]

(***************************************************************************)
(* api/routes.py                                                           *)
(***************************************************************************)
\* dict.get(key, default) on the JSON body
Get(data, key, default) == IF key \in DOMAIN data THEN data[key] ELSE default

\* "goals not met" not in message.lower(), over the messages log_daily_goals returns
MentionsNotMet(message) == message = NotMetMsg

\* POST /api/checkin with a valid session: the tables afterwards and the response.
api_checkin(db, now, user_id, data) ==
    LET german_hours == Get(data, "german_hours", 0)
        tech_hours == Get(data, "tech_hours", 0)
        applications_sent == Get(data, "applications_sent", 0)
        words_learned == Get(data, "words_learned", 0)
        r == log_daily_goals(db, now, user_id, german_hours, tech_hours,
                             applications_sent, words_learned)
        success == r.ret[1]
        message == r.ret[2]
    IN  [db |-> r.db,
         success |-> success,
         goals_met |-> ~MentionsNotMet(message),
         message |-> message,
         status |-> IF success THEN 200 ELSE 500]

(***************************************************************************)
(* app.py                                                                  *)
(***************************************************************************)
\* Truth value of a Python tuple used as a condition: non-empty is true.
Truthy(tuple) == Len(tuple) > 0

WeekWarriorStreak == 7
MonthlyMasterStreak == 30
CenturyChampionStreak == 100
YearlyLegendStreak == 365

RedemptionPayment == 20
EmergencyPenalty == 50

\* The lock check reading is_locked alone.
access_state_flag_only(db, now, user_id) ==
    LET user == get_user(db, user_id)
    IN  IF user.is_locked = 1 THEN "Locked" ELSE "Active"

\* The lock check with the last day of the window counted as locked.
access_state_inclusive(db, now, user_id) ==
    LET user == get_user(db, user_id)
        lock_end == user.lock_end_date
    IN  IF user.is_locked = 1
        THEN IF ~lock_end.null
             THEN IF now <= strptime(lock_end) THEN "Locked" ELSE "Active"
             ELSE "Active"
        ELSE "Active"

\* dashboard_page, the lock check: "Locked" when lock_page() is shown.  The
\* ValueError branch needs a lock_end_date that strptime rejects; every stored
\* lock_end_date is strftime's output, so that branch is never taken.
access_state(db, now, user_id) ==
    LET user == get_user(db, user_id)
        lock_end == user.lock_end_date
    IN  IF user.is_locked = 1
        THEN IF ~lock_end.null
             THEN IF now < strptime(lock_end) THEN "Locked" ELSE "Active"
             ELSE "Active"
        ELSE "Active"

\* checkin_page awarding a milestone at its streak value or above.
checkin_page_at_least(db, now, user_id, form) ==
    LET german_hours == form["german_hours"]
        tech_hours == form["tech_hours"]
        apps_sent == form["applications_sent"]
        words_learned == form["words_learned"]
        goal_met == /\ german_hours >= 4
                    /\ tech_hours >= 6
                    /\ apps_sent >= 5
                    /\ words_learned >= 50
    IN  IF goal_met
        THEN LET r == log_daily_goals(db, now, user_id, german_hours, tech_hours,
                                      apps_sent, words_learned)
             IN  IF Truthy(r.ret)
                 THEN LET db2 == update_user_streak(r.db, now, user_id, FALSE)
                          streak == get_user(db2, user_id).current_streak
                          db3 == IF streak >= YearlyLegendStreak
                                   THEN add_achievement(db2, now, user_id, "Yearly Legend").db
                                 ELSE IF streak >= CenturyChampionStreak
                                   THEN add_achievement(db2, now, user_id, "Century Champion").db
                                 ELSE IF streak >= MonthlyMasterStreak
                                   THEN add_achievement(db2, now, user_id, "Monthly Master").db
                                 ELSE IF streak >= WeekWarriorStreak
                                   THEN add_achievement(db2, now, user_id, "Week Warrior").db
                                 ELSE db2
                      IN  [db |-> db3, goal_met |-> TRUE]
                 ELSE [db |-> r.db, goal_met |-> TRUE]
        ELSE [db |-> add_penalty(update_user_streak(db, now, user_id, TRUE),
                                 now, user_id, 10, MissedGoalReason),
              goal_met |-> FALSE]

\* checkin_page, "if submitted:" with the form's four numbers.
checkin_page(db, now, user_id, form) ==
    LET german_hours == form["german_hours"]
        tech_hours == form["tech_hours"]
        apps_sent == form["applications_sent"]
        words_learned == form["words_learned"]
        goal_met == /\ german_hours >= 4
                    /\ tech_hours >= 6
                    /\ apps_sent >= 5
                    /\ words_learned >= 50
    IN  IF goal_met
        THEN LET r == log_daily_goals(db, now, user_id, german_hours, tech_hours,
                                      apps_sent, words_learned)
             IN  IF Truthy(r.ret)
                 THEN LET db2 == update_user_streak(r.db, now, user_id, FALSE)
                          streak == get_user(db2, user_id).current_streak
                          db3 == IF streak = WeekWarriorStreak
                                   THEN add_achievement(db2, now, user_id, "Week Warrior").db
                                 ELSE IF streak = MonthlyMasterStreak
                                   THEN add_achievement(db2, now, user_id, "Monthly Master").db
                                 ELSE IF streak = CenturyChampionStreak
                                   THEN add_achievement(db2, now, user_id, "Century Champion").db
                                 ELSE IF streak = YearlyLegendStreak
                                   THEN add_achievement(db2, now, user_id, "Yearly Legend").db
                                 ELSE db2
                      IN  [db |-> db3, goal_met |-> TRUE]
                 ELSE [db |-> r.db, goal_met |-> TRUE]
        ELSE [db |-> add_penalty(update_user_streak(db, now, user_id, TRUE),
                                 now, user_id, 10, MissedGoalReason),
              goal_met |-> FALSE]

\* checkin_page as one script run with the form submitted: the run returns at
\* the "already completed" notice before the form is read, else handles the form.
checkin_page_submit(db, now, user_id, form) ==
    IF check_daily_completion(db, now, user_id)
    THEN [db |-> db, goal_met |-> FALSE, accepted |-> FALSE]
    ELSE LET r == checkin_page(db, now, user_id, form)
         IN  [db |-> r.db, goal_met |-> r.goal_met, accepted |-> TRUE]

\* lock_page, "3h German Study": the call passes checkin_completed=1, a keyword
\* log_daily_goals does not take, and omits three positional arguments, so it
\* raises TypeError before anything is written; main() catches it.
lock_page_german_study(db, now, user_id) == db

\* lock_page, "Pay $20": add_penalty returned True, then unlock_app.
lock_page_pay(db, now, user_id) ==
    unlock_app(add_penalty(db, now, user_id, RedemptionPayment, "Redemption payment"),
               user_id)

\* The emergency unlock ending in unlock_app, which leaves the streak alone.
settings_page_emergency_unlock_plain(db, now, user_id) ==
    unlock_app(
        add_penalty(db, now, user_id, EmergencyPenalty, "Emergency unlock"), user_id)

\* settings_page, "Confirm Emergency Unlock": add_penalty returned True, then
\* reset_streak_and_unlock.
settings_page_emergency_unlock(db, now, user_id) ==
    reset_streak_and_unlock(
        add_penalty(db, now, user_id, EmergencyPenalty, "Emergency unlock"), user_id)

\* The store writes of the emergency unlock.
UnlockWrites == {"add_penalty_db", "reset_streak_and_unlock_db"}

\* The confirmed emergency unlock over a store whose writes in `down` fail:
\* the tables afterwards, whether "Emergency unlock complete" is shown, and the
\* write that was made and failed.
settings_page_emergency_unlock_store(db, now, user_id, down) ==
    LET charged == add_penalty_store(db, now, user_id, EmergencyPenalty,
                                     "Emergency unlock", down)
    IN  IF ~charged.ret
        THEN [db |-> db, ret |-> FALSE, lost |-> {"add_penalty_db"}]
        ELSE IF "reset_streak_and_unlock_db" \in down
        THEN [db |-> charged.db, ret |-> FALSE,
              lost |-> {"reset_streak_and_unlock_db"}]
        ELSE [db |-> reset_streak_and_unlock(charged.db, user_id), ret |-> TRUE,
              lost |-> {}]

(***************************************************************************)
(* Inputs                                                                  *)
(***************************************************************************)
Body(g, t, a, w) ==
    [german_hours |-> g, tech_hours |-> t, applications_sent |-> a, words_learned |-> w]

ScenarioA == Body(4, 6, 5, 50)      \* (2.0, 3.0, 5, 50)
ScenarioB == Body(2, 2, 1, 10)      \* (1.0, 1.0, 1, 10)
NoWords == [german_hours |-> 4, tech_hours |-> 6, applications_sent |-> 5]

ApiBodies == {ScenarioA, ScenarioB, NoWords}
UiForms == {ScenarioA, ScenarioB}
AchievementNames == {"Week Warrior", "First Step"}

\* Every metric missing, one step below its threshold, at it, or one step above.
Level(key, i) ==
    CASE key = "german_hours" -> 2 + i
      [] key = "tech_hours" -> 4 + i
      [] key = "applications_sent" -> 3 + i
      [] key = "words_learned" -> 48 + i
EvalBodies ==
    {[k \in {x \in Keys : f[x] > 0} |-> Level(k, f[k])] : f \in [Keys -> 0..3]}

\* The form's fields always hold a number (0 by default); words move in steps of 10.
FormLevel(key, i) ==
    IF i = 0 THEN 0
    ELSE IF key = "words_learned" THEN 30 + 10 * i
    ELSE Level(key, i)
EvalForms == {[k \in Keys |-> FormLevel(k, f[k])] : f \in [Keys -> 0..3]}

(***************************************************************************)
(* The state after registration of the users                               *)
(***************************************************************************)
\* The threads of control that serve requests side by side: a thread of the
\* API server, a Streamlit session.
Procs == {1, 2}

\* A thread serving nothing.
Idle ==
    [op |-> "idle", user |-> 0, data |-> << >>, pc |-> 1, existing |-> FALSE,
     row |-> NewUserRow, writes |-> << >>]

\* The store statements of log_daily_goals in the order it issues them, each on
\* a connection of its own that commits before the next statement starts; the
\* SELECT and the write of log_daily_goals_db share a connection but the write
\* alone opens a transaction.
log_daily_goals_steps(met) ==
    IF met
    THEN <<"select_daily_goals", "write_daily_goals", "get_user",
           "update_user_streak_data">>
    ELSE <<"select_daily_goals", "write_daily_goals", "get_user",
           "update_user_streak_data", "add_penalty_db">>

\* The emergency unlock clearing the lock before it records the penalty.
settings_page_emergency_unlock_steps_unlock_first ==
    <<"reset_streak_and_unlock_db", "add_penalty_db">>

\* The store statements of the confirmed emergency unlock, in order.
settings_page_emergency_unlock_steps ==
    <<"add_penalty_db", "reset_streak_and_unlock_db">>

\* The statements that write.
WriteSteps ==
    {"write_daily_goals", "update_user_streak_data", "add_penalty_db",
     "reset_streak_and_unlock_db"}

\* goals_met of the body of a check-in request.
MetBy(data) ==
    goals_met(Get(data, "german_hours", 0), Get(data, "tech_hours", 0),
              Get(data, "applications_sent", 0), Get(data, "words_learned", 0))

\* The statements of request r.
StepsOf(r) ==
    IF r.op = "emergency_unlock"
    THEN settings_page_emergency_unlock_steps
    ELSE log_daily_goals_steps(MetBy(r.data))

\* The tables after statement s of request r has run on tables db.
Effect(db, now, r, s) ==
    CASE s = "write_daily_goals" ->
            log_daily_goals_db_write(db, r.existing, r.user, now,
                Get(r.data, "german_hours", 0), Get(r.data, "tech_hours", 0),
                Get(r.data, "applications_sent", 0), Get(r.data, "words_learned", 0),
                IF MetBy(r.data) THEN 1 ELSE 0)
      [] s = "update_user_streak_data" ->
            \* the values written come from the row get_user returned
            update_user_streak([db EXCEPT !.users[r.user] = r.row], now, r.user,
                               ~MetBy(r.data))
      [] s = "add_penalty_db" ->
            IF r.op = "emergency_unlock"
            THEN add_penalty(db, now, r.user, EmergencyPenalty, "Emergency unlock")
            ELSE add_penalty(db, now, r.user, MissedGoalPenalty, MissedGoalReason)
      [] s = "reset_streak_and_unlock_db" -> reset_streak_and_unlock(db, r.user)
      [] OTHER -> db

(***************************************************************************)
(* services/auth_service.py: password reset                                *)
(***************************************************************************)
\* datetime.now() is counted in ticks, two to the second.
TicksPerSecond == 2

\* timedelta(hours=1)
TokenValidFor == 3600 * TicksPerSecond

\* strftime('%Y-%m-%d %H:%M:%S') keeps whole seconds; strptime reads them back.
NULL_TIME == [null |-> TRUE, sec |-> 0]
strftime_seconds(t) == [null |-> FALSE, sec |-> t \div TicksPerSecond]
strptime_seconds(x) == x.sec * TicksPerSecond

\* helpers.hash_password: the stored value is not the password itself.
hash_password(password) == [hash |-> password]

\* The reset_token column holds a token (1, 2, ...) or NULL (0); a caller's
\* reset_token of 0 is None.
NoToken == 0
Passwords == {"newpass1", "newpass2"}
Emails == Users \cup {0}      \* 0: an address with no account

AuthRow ==
    [password_hash |-> hash_password("oldpass"), reset_token |-> NoToken,
     reset_token_expires |-> NULL_TIME]

\* generated: tokens generated so far; changes: per token, the password changes
\* made with it; pre: the rows before the last call.
AuthInit ==
    [now |-> 0, rows |-> [u \in Users |-> AuthRow], generated |-> 0,
     changes |-> [t \in 1..MaxTokens |-> 0], pre |-> [u \in Users |-> AuthRow]]

\* UPDATE users SET password_hash = ? WHERE email = ?
update_user_password(rows, email, new_password_hash) ==
    [u \in Users |-> IF u = email THEN [rows[u] EXCEPT !.password_hash = new_password_hash]
                     ELSE rows[u]]

\* UPDATE users SET reset_token = ?, reset_token_expires = ? WHERE email = ?
store_reset_token(rows, email, reset_token, expires_at) ==
    [u \in Users |-> IF u = email
                     THEN [rows[u] EXCEPT !.reset_token = reset_token,
                                          !.reset_token_expires = strftime_seconds(expires_at)]
                     ELSE rows[u]]

\* SELECT id, reset_token_expires FROM users WHERE email = ? AND reset_token = ?
\* (a NULL column or a NULL parameter matches nothing); << >> is None.
get_reset_token_info(rows, email, reset_token) ==
    IF email \in Users /\ reset_token # NoToken /\ rows[email].reset_token = reset_token
    THEN [id |-> email, reset_token_expires |-> rows[email].reset_token_expires]
    ELSE << >>

\* UPDATE users SET reset_token = NULL, reset_token_expires = NULL WHERE email = ?
clear_reset_token(rows, email) ==
    [u \in Users |-> IF u = email
                     THEN [rows[u] EXCEPT !.reset_token = NoToken,
                                          !.reset_token_expires = NULL_TIME]
                     ELSE rows[u]]

\* helpers.generate_reset_token: a token not generated before.
generate_reset_token(generated) == generated + 1

\* initiate_password_reset; sent is what helpers.send_reset_email returns.
initiate_password_reset(rows, now, generated, email, sent) ==
    IF email \notin Users
    THEN [rows |-> rows, generated |-> generated, ret |-> <<FALSE, "Email not found.">>]
    ELSE LET reset_token == generate_reset_token(generated)
             expires_at == now + TokenValidFor
             stored == store_reset_token(rows, email, reset_token, expires_at)
         IN  IF sent
             THEN [rows |-> stored, generated |-> reset_token,
                   ret |-> <<TRUE, "Password reset email sent. Check your inbox.">>]
             ELSE [rows |-> clear_reset_token(stored, email), generated |-> reset_token,
                   ret |-> <<FALSE, "Failed to send reset email. Please try again later.">>]

\* reset_password leaving the token in place after the password is changed.
reset_password_token_kept(rows, now, email, reset_token, new_password) ==
    LET token_info == get_reset_token_info(rows, email, reset_token)
    IN  IF token_info = << >>
        THEN [rows |-> rows, ret |-> <<FALSE, "Invalid reset token.">>]
        ELSE IF now > strptime_seconds(token_info.reset_token_expires)
        THEN [rows |-> clear_reset_token(rows, email),
              ret |-> <<FALSE, "Reset token has expired.">>]
        ELSE [rows |-> update_user_password(rows, email, hash_password(new_password)),
              ret |-> <<TRUE, "Password reset successfully. You can now log in with your new password.">>]

reset_password(rows, now, email, reset_token, new_password) ==
    LET token_info == get_reset_token_info(rows, email, reset_token)
    IN  IF token_info = << >>
        THEN [rows |-> rows, ret |-> <<FALSE, "Invalid reset token.">>]
        ELSE IF now > strptime_seconds(token_info.reset_token_expires)
        THEN [rows |-> clear_reset_token(rows, email),
              ret |-> <<FALSE, "Reset token has expired.">>]
        ELSE [rows |-> clear_reset_token(
                           update_user_password(rows, email, hash_password(new_password)),
                           email),
              ret |-> <<TRUE, "Password reset successfully. You can now log in with your new password.">>]

NoRequest ==
    [op |-> "none", user |-> 0, data |-> << >>, goals_met |-> FALSE,
     success |-> FALSE, message |-> "", state |-> "", created |-> FALSE,
     lost |-> {}, pre |-> << >>]

Init ==
    /\ today = 1
    /\ users = [u \in Users |-> NewUserRow]
    /\ daily_goals = << >>
    /\ penalties = << >>
    /\ achievements = << >>
    /\ last = NoRequest
    /\ day_open = [u \in Users |-> NewUserRow]
    /\ day_log = [u \in Users |-> << >>]
    /\ passRun = [u \in Users |-> 0]
    /\ passPath = [u \in Users |-> {}]
    /\ ops = 0
    /\ inflight = [p \in Procs |-> Idle]
    /\ episode = [db0 |-> [users |-> [u \in Users |-> NewUserRow], daily_goals |-> << >>,
                           penalties |-> << >>, achievements |-> << >>],
                  reqs |-> << >>]
    /\ auth = AuthInit

\* History kept with every request served for user u.
Served(u, op, run) ==
    /\ day_log' = [day_log EXCEPT ![u] = Append(@, op)]
    /\ passRun' = [passRun EXCEPT ![u] = run]
    /\ passPath' = [passPath EXCEPT ![u] = IF run > passRun[u] THEN @ \cup {op} ELSE @]
    /\ ops' = ops + 1
    /\ UNCHANGED <<today, day_open, inflight, episode, auth>>

\* passRun after a passing check-in of u.
PassStep(u) ==
    IF passRun[u] = 0 THEN 1
    ELSE IF passRun[u] > 0 /\ users[u].last_checkin = strftime(today - 1)
         THEN passRun[u] + 1
         ELSE -1

(***************************************************************************)
(* Actions: one per request, and the passing of a day                      *)
(***************************************************************************)
\* The calendar date advances.
Tick(horizon) ==
    /\ today < horizon
    /\ today' = today + 1
    /\ day_open' = users
    /\ day_log' = [u \in Users |-> << >>]
    /\ last' = [NoRequest EXCEPT !.op = "tick"]
    /\ UNCHANGED <<users, daily_goals, penalties, achievements, passRun, passPath, ops, inflight, episode, auth>>

\* POST /api/checkin
ApiCheckin(u, data, cap) ==
    /\ ops < cap
    /\ LET r == api_checkin(DB, today, u, data)
       IN  /\ Commit(r.db)
           /\ last' = [NoRequest EXCEPT !.op = "api_checkin", !.user = u,
                          !.data = data, !.goals_met = r.goals_met,
                          !.success = r.success, !.message = r.message,
                          !.pre = DB]
           /\ Served(u, "api_checkin", IF r.goals_met THEN PassStep(u) ELSE -1)

\* The check-in page: the form is offered while today's check-in is not completed.
UiCheckin(u, form, cap) ==
    /\ ops < cap
    /\ ~check_daily_completion(DB, today, u)
    /\ LET r == checkin_page(DB, today, u, form)
       IN  /\ Commit(r.db)
           /\ last' = [NoRequest EXCEPT !.op = "checkin_page", !.user = u,
                          !.data = form, !.goals_met = r.goal_met, !.pre = DB]
           /\ Served(u, "checkin_page", IF r.goal_met THEN PassStep(u) ELSE -1)

\* The dashboard is opened: the lock check decides between lock page and dashboard.
DashboardView(u, cap) ==
    /\ ops < cap
    /\ last' = [NoRequest EXCEPT !.op = "dashboard_page", !.user = u,
                   !.state = access_state(DB, today, u), !.pre = DB]
    /\ Served(u, "dashboard_page", passRun[u])
    /\ UNCHANGED <<users, daily_goals, penalties, achievements>>

\* Lock page, "3h German Study".
RedeemGermanStudy(u, cap) ==
    /\ ops < cap
    /\ access_state(DB, today, u) = "Locked"
    /\ Commit(lock_page_german_study(DB, today, u))
    /\ last' = [NoRequest EXCEPT !.op = "lock_page_german_study", !.user = u, !.pre = DB]
    /\ Served(u, "lock_page_german_study", -1)

\* Lock page, "Pay $20".
RedeemPay(u, cap) ==
    /\ ops < cap
    /\ access_state(DB, today, u) = "Locked"
    /\ Commit(lock_page_pay(DB, today, u))
    /\ last' = [NoRequest EXCEPT !.op = "lock_page_pay", !.user = u,
                   !.success = TRUE, !.pre = DB]
    /\ Served(u, "lock_page_pay", -1)

\* Settings page, "Confirm Emergency Unlock".
EmergencyUnlock(u, cap) ==
    /\ ops < cap
    /\ Commit(settings_page_emergency_unlock(DB, today, u))
    /\ last' = [NoRequest EXCEPT !.op = "emergency_unlock", !.user = u,
                   !.success = TRUE, !.pre = DB]
    /\ Served(u, "emergency_unlock", -1)

\* goal_service.add_achievement called on its own.
AddAchievement(u, name, cap) ==
    /\ ops < cap
    /\ LET r == add_achievement(DB, today, u, name)
       IN  /\ Commit(r.db)
           /\ last' = [NoRequest EXCEPT !.op = "add_achievement", !.user = u,
                          !.message = name, !.created = r.ret, !.pre = DB]
           /\ Served(u, "add_achievement", -1)

Next ==
    \/ Tick(MaxDate)
    \/ \E u \in Users, data \in ApiBodies : ApiCheckin(u, data, MaxOps)
    \/ \E u \in Users, form \in UiForms : UiCheckin(u, form, MaxOps)
    \/ \E u \in Users : DashboardView(u, MaxOps)
    \/ \E u \in Users : RedeemGermanStudy(u, MaxOps)
    \/ \E u \in Users : RedeemPay(u, MaxOps)
    \/ \E u \in Users : EmergencyUnlock(u, MaxOps)
    \/ \E u \in Users, name \in AchievementNames : AddAchievement(u, name, MaxOps)

Spec == Init /\ [][Next]_vars

\* One user, one check-in a day, a week and a day long.
NextWeek ==
    \/ Tick(WeekDays)
    \/ \E data \in {ScenarioA, ScenarioB} :
          day_log[1] = << >> /\ ApiCheckin(1, data, WeekDays)
    \/ \E form \in {ScenarioA, ScenarioB} :
          day_log[1] = << >> /\ UiCheckin(1, form, WeekDays)

SpecWeek == Init /\ [][NextWeek]_vars

\* The verdict on every combination of missing, low, exact and high metrics.
NextEval ==
    \/ \E data \in EvalBodies : ApiCheckin(1, data, EvalOps)
    \/ \E form \in EvalForms : UiCheckin(1, form, EvalOps)

SpecEval == Init /\ [][NextEval]_vars

\* goal_service.add_penalty called on its own, with any amount.
PenaltyAmounts == {-5, 0, 25}

AddPenalty(u, amount, cap) ==
    /\ ops < cap
    /\ Commit(add_penalty(DB, today, u, amount, "Late payment"))
    /\ last' = [NoRequest EXCEPT !.op = "add_penalty", !.user = u,
                   !.data = [amount |-> amount], !.success = TRUE, !.pre = DB]
    /\ Served(u, "add_penalty", -1)

\* The penalty ledger on its own: penalties of any amount, and failed check-ins.
NextLedger ==
    \/ Tick(MaxDate)
    \/ \E u \in Users, amount \in PenaltyAmounts : AddPenalty(u, amount, MaxOps)
    \/ \E u \in Users : ApiCheckin(u, ScenarioB, MaxOps)

SpecLedger == Init /\ [][NextLedger]_vars

\* goal_service.log_daily_goals called while the writes in `down` fail.
LogDailyGoals(u, data, down, cap) ==
    /\ ops < cap
    /\ LET r == log_daily_goals_store(DB, today, u, data.german_hours,
                                      data.tech_hours, data.applications_sent,
                                      data.words_learned, down)
       IN  /\ Commit(r.db)
           /\ last' = [NoRequest EXCEPT !.op = "log_daily_goals", !.user = u,
                          !.data = data, !.success = r.ret[1],
                          !.goals_met = r.ret[2] = CompletedMsg,
                          !.message = r.ret[2], !.lost = r.lost, !.pre = DB]
           /\ Served(u, "log_daily_goals", -1)

\* Settings page, "Confirm Emergency Unlock", while the writes in `down` fail.
EmergencyUnlockStore(u, down, cap) ==
    /\ ops < cap
    /\ LET r == settings_page_emergency_unlock_store(DB, today, u, down)
       IN  /\ Commit(r.db)
           /\ last' = [NoRequest EXCEPT !.op = "settings_page_emergency_unlock",
                          !.user = u, !.success = r.ret, !.lost = r.lost,
                          !.pre = DB]
           /\ Served(u, "settings_page_emergency_unlock", -1)

\* Check-ins and emergency unlocks over a store that may fail any of its writes.
NextStore ==
    \/ Tick(MaxDate)
    \/ \E u \in Users, data \in UiForms, down \in SUBSET StoreWrites :
          LogDailyGoals(u, data, down, MaxOps)
    \/ \E u \in Users, down \in SUBSET UnlockWrites :
          EmergencyUnlockStore(u, down, MaxOps)

SpecStore == Init /\ [][NextStore]_vars

\* The check-in form is submitted whatever the day's record says; last.success
\* tells whether the page took the submission.
CheckinPageSubmit(u, form, cap) ==
    /\ ops < cap
    /\ LET r == checkin_page_submit(DB, today, u, form)
       IN  /\ Commit(r.db)
           /\ last' = [NoRequest EXCEPT !.op = "checkin_page", !.user = u,
                          !.data = form, !.goals_met = r.goal_met,
                          !.success = r.accepted, !.pre = DB]
           /\ Served(u, "checkin_page",
                     IF ~r.accepted THEN passRun[u]
                     ELSE IF r.goal_met THEN PassStep(u) ELSE -1)

\* Check-ins through the page and through /api/checkin over the days.
NextPage ==
    \/ Tick(MaxDate)
    \/ \E u \in Users, form \in UiForms : CheckinPageSubmit(u, form, MaxOps)
    \/ \E u \in Users, data \in UiForms : ApiCheckin(u, data, MaxOps)

SpecPage == Init /\ [][NextPage]_vars

\* Thread p is in the middle of a request.
InFlight(p) == inflight[p].op # "idle" /\ inflight[p].pc <= Len(StepsOf(inflight[p]))

\* Thread p takes up a request: a check-in posted to /api/checkin, or a
\* confirmed emergency unlock.
Begin(p, op, u, data, cap) ==
    /\ ops < cap
    /\ ~InFlight(p)
    /\ inflight' = [inflight EXCEPT ![p] = [Idle EXCEPT !.op = op, !.user = u, !.data = data]]
    /\ episode' = IF \E q \in Procs : InFlight(q)
                  THEN [episode EXCEPT !.reqs = Append(@, [op |-> op, user |-> u, data |-> data])]
                  ELSE [db0 |-> DB, reqs |-> <<[op |-> op, user |-> u, data |-> data]>>]
    /\ ops' = ops + 1
    /\ UNCHANGED <<today, users, daily_goals, penalties, achievements, last, day_open, day_log, passRun, passPath, auth>>

\* Thread p runs the next statement of its request.
Step(p) ==
    /\ InFlight(p)
    /\ LET r == inflight[p]
           s == StepsOf(r)[r.pc]
       IN  /\ Commit(Effect(DB, today, r, s))
           /\ inflight' = [inflight EXCEPT ![p] =
                  [r EXCEPT !.pc = @ + 1,
                            !.existing = IF s = "select_daily_goals"
                                         THEN GoalRowsAt(DB, r.user, today) # {} ELSE @,
                            !.row = IF s = "get_user" THEN get_user(DB, r.user) ELSE @,
                            !.writes = IF s \in WriteSteps THEN Append(@, s) ELSE @]]
    /\ UNCHANGED <<today, last, day_open, day_log, passRun, passPath, ops, episode, auth>>

\* Requests served side by side, statement by statement.
NextConc ==
    \/ \E p \in Procs, u \in Users, data \in UiForms : Begin(p, "api_checkin", u, data, ConcOps)
    \/ \E p \in Procs, u \in Users : Begin(p, "emergency_unlock", u, << >>, ConcOps)
    \/ \E p \in Procs : Step(p)

SpecConc == Init /\ [][NextConc]_vars

\* What a call of auth_service leaves alone.
AuthFrame ==
    /\ ops' = ops + 1
    /\ UNCHANGED <<today, users, daily_goals, penalties, achievements, day_open, day_log, passRun, passPath, inflight, episode>>

\* Time passes: a tick, or the lifetime of a token.
Elapse(dt, cap) ==
    /\ ops < cap
    /\ auth' = [auth EXCEPT !.now = @ + dt, !.pre = auth.rows]
    /\ last' = [NoRequest EXCEPT !.op = "elapse"]
    /\ AuthFrame

\* "Forgot password" is submitted for an address.
InitiatePasswordReset(email, sent, cap) ==
    /\ ops < cap
    /\ auth.generated < MaxTokens
    /\ LET r == initiate_password_reset(auth.rows, auth.now, auth.generated, email, sent)
       IN  /\ auth' = [auth EXCEPT !.rows = r.rows, !.generated = r.generated,
                                   !.pre = auth.rows]
           /\ last' = [NoRequest EXCEPT !.op = "initiate_password_reset", !.user = email,
                          !.success = r.ret[1], !.message = r.ret[2]]
    /\ AuthFrame

\* A new password is submitted with a token.
ResetPassword(email, reset_token, new_password, cap) ==
    /\ ops < cap
    /\ LET r == reset_password(auth.rows, auth.now, email, reset_token, new_password)
       IN  /\ auth' = [auth EXCEPT
                          !.rows = r.rows, !.pre = auth.rows,
                          !.changes = IF r.ret[1] THEN [@ EXCEPT ![reset_token] = @ + 1] ELSE @]
           /\ last' = [NoRequest EXCEPT !.op = "reset_password", !.user = email,
                          !.data = [reset_token |-> reset_token, new_password |-> new_password],
                          !.success = r.ret[1], !.message = r.ret[2]]
    /\ AuthFrame

\* Password resets requested and redeemed as time passes.
NextAuth ==
    \/ \E dt \in {1, TokenValidFor} : Elapse(dt, AuthOps)
    \/ \E email \in Emails, sent \in BOOLEAN : InitiatePasswordReset(email, sent, AuthOps)
    \/ \E email \in Emails, reset_token \in 0..MaxTokens, new_password \in Passwords :
          ResetPassword(email, reset_token, new_password, AuthOps)

SpecAuth == Init /\ [][NextAuth]_vars

(***************************************************************************)
(* Properties                                                              *)
(***************************************************************************)
CheckinOps == {"api_checkin", "checkin_page"}

\* The last request was a check-in with a Pass verdict / a Fail verdict.
PassedCheckin == last.op \in CheckinOps /\ last.goals_met
FailedCheckin == last.op \in CheckinOps /\ ~last.goals_met

\* The row of the user of the last request, after and before the request.
RowNow == users[last.user]
RowBefore == last.pre.users[last.user]

\* C1: however often log_daily_goals is called for a user on one date, the
\* user's total_streak and current_streak each grow by at most 1 on that date.
C1_OneTransitionPerDate ==
    \A u \in Users :
        (\A i \in DOMAIN day_log[u] : day_log[u][i] = "api_checkin")
        => /\ users[u].total_streak <= day_open[u].total_streak + 1
           /\ users[u].current_streak <= day_open[u].current_streak + 1

\* C2: from a freshly registered user, after N passing check-ins on N
\* consecutive dates, one per date, current_streak = N and total_streak = N.
C2_ConsecutivePasses ==
    \A u \in Users :
        passRun[u] >= 0
        => /\ users[u].current_streak = passRun[u]
           /\ users[u].total_streak = passRun[u]

\* The same for check-ins that all came through log_daily_goals by way of the API.
C2_ConsecutivePassesByService ==
    \A u \in Users :
        passRun[u] >= 0 /\ passPath[u] \subseteq {"api_checkin"}
        => /\ users[u].current_streak = passRun[u]
           /\ users[u].total_streak = passRun[u]

\* C3: a failing check-in on date d, whatever the state before it, leaves
\* current_streak = 0, is_locked = true, lock_end_date = d + 1,
\* last_checkin = d and total_streak as it was.
C3_FailTransition ==
    FailedCheckin
    => /\ RowNow.current_streak = 0
       /\ RowNow.is_locked = 1
       /\ RowNow.lock_end_date = strftime(today + 1)
       /\ RowNow.last_checkin = strftime(today)
       /\ RowNow.total_streak = RowBefore.total_streak

\* A failing check-in has ended a streak of two and more.
C3_Witness ==
    /\ FailedCheckin
    /\ RowBefore.current_streak >= 2
    /\ RowBefore.total_streak >= 2
    /\ RowNow.current_streak = 0

\* C4: a passing check-in applied while the user is locked leaves
\* is_locked = false and lock_end_date absent.
C4_PassClearsLock ==
    PassedCheckin /\ RowBefore.is_locked = 1
    => /\ RowNow.is_locked = 0
       /\ RowNow.lock_end_date = NULL

\* C5: one passing check-in, through the API or through the check-in page,
\* raises current_streak by exactly 1 and total_streak by exactly 1 and
\* records no penalty.
C5_OnePassOneStep ==
    PassedCheckin
    => /\ RowNow.current_streak = RowBefore.current_streak + 1
       /\ RowNow.total_streak = RowBefore.total_streak + 1
       /\ penalties = last.pre.penalties

\* The check-in requests served for the user of the last request earlier today.
EarlierCheckinsToday ==
    {i \in 1..(Len(day_log[last.user]) - 1) : day_log[last.user][i] \in CheckinOps}

\* C6: a failing check-in on a date with no earlier submission appends exactly
\* one penalty for the user: amount 10.0, reason "Daily goals not met", the
\* evaluation date, unpaid.
C6_FirstFailOnePenalty ==
    FailedCheckin /\ EarlierCheckinsToday = {}
    => penalties = Append(last.pre.penalties,
                          [user_id |-> last.user, amount |-> 10,
                           reason |-> "Daily goals not met",
                           date |-> strftime(today), paid |-> 0])

\* The first check-in of a later day fails, for a user who already has a penalty.
C6_Witness ==
    /\ FailedCheckin
    /\ EarlierCheckinsToday = {}
    /\ today > 1
    /\ \E i \in DOMAIN last.pre.penalties : last.pre.penalties[i].user_id = last.user
    /\ Len(penalties) = Len(last.pre.penalties) + 1

\* The metric of the request body is present and reaches the threshold.
Reaches(data, key, threshold) == key \in DOMAIN data /\ data[key] >= threshold

\* C7: the verdict is Pass exactly when german_hours >= 2.0, tech_hours >= 3.0,
\* applications_sent >= 5 and words_learned >= 50; a metric below its threshold,
\* or missing, makes it Fail.
C7_VerdictThresholds ==
    last.op \in CheckinOps
    => (last.goals_met <=> /\ Reaches(last.data, "german_hours", 4)
                           /\ Reaches(last.data, "tech_hours", 6)
                           /\ Reaches(last.data, "applications_sent", 5)
                           /\ Reaches(last.data, "words_learned", 50))

\* A request with every metric exactly at its threshold got Pass.
C7_Witness ==
    /\ last.op = "api_checkin"
    /\ last.data = ScenarioA
    /\ last.goals_met
    /\ RowNow.current_streak = 1

\* Rows of achievements for a user and a name.
AchievementRows(rows, u, name) ==
    {i \in DOMAIN rows : rows[i].user_id = u /\ rows[i].achievement_name = name}

\* C8: for every user and name at most one achievement row exists; the first
\* add_achievement returns true, every later one false, adding no row.
C8_AchievementUnique ==
    /\ \A u \in Users, name \in AchievementNames :
          Cardinality(AchievementRows(achievements, u, name)) <= 1
    /\ last.op = "add_achievement"
       => (last.created <=>
              AchievementRows(last.pre.achievements, last.user, last.message) = {})

\* C9: over seven passing check-ins on seven consecutive dates from a fresh
\* user, all through one entry path, "Week Warrior" does not exist after
\* check-ins 1 to 6 and exists exactly once from check-in 7 on.
C9_WeekWarriorAtSeven ==
    \A u \in Users :
        LET rows == AchievementRows(achievements, u, "Week Warrior")
        IN  Cardinality(passPath[u]) <= 1
            => /\ passRun[u] \in 1..6 => rows = {}
               /\ passRun[u] >= 7 => Cardinality(rows) = 1

\* C10: the access state reported is Locked exactly when the stored is_locked
\* is true and today is strictly before the stored lock_end_date; it is
\* Active in every other case.
C10_LockedIff ==
    last.op = "dashboard_page"
    => /\ last.state \in {"Locked", "Active"}
       /\ last.state = "Locked"
          <=> /\ RowNow.is_locked = 1
              /\ \E d \in 1..(today + 1) :
                    RowNow.lock_end_date = strftime(d) /\ today < d

\* The dashboard is opened during the lock window.
C10_Witness ==
    /\ last.op = "dashboard_page"
    /\ last.state = "Locked"
    /\ RowNow.is_locked = 1

\* The dashboard is opened with is_locked still set after the window has ended,
\* and with is_locked set and no lock_end_date.
C10_ExpiredReached ==
    ~(/\ last.op = "dashboard_page"
      /\ RowNow.is_locked = 1
      /\ ~RowNow.lock_end_date.null
      /\ today >= strptime(RowNow.lock_end_date))
C10_NoEndDateReached ==
    ~(/\ last.op = "dashboard_page"
      /\ RowNow.is_locked = 1
      /\ RowNow.lock_end_date = NULL)

\* C11: while the access state of a user is Locked, a check-in submitted
\* through the check-in page or /api/checkin is not accepted: it upserts no
\* daily record and applies no streak transition.
C11_LockedCheckinGated ==
    last.op \in CheckinOps /\ access_state(last.pre, today, last.user) = "Locked"
    => /\ users = last.pre.users
       /\ daily_goals = last.pre.daily_goals

\* C12: a Locked user (lock_end_date = today + 1, current_streak = 0) who
\* completes the 3-hour German redemption task is Active at once (is_locked
\* false, lock_end_date absent), current_streak is still 0 and the redemption
\* brings no new lock and no penalty.
C12_GermanStudyUnlocks ==
    last.op = "lock_page_german_study"
    => /\ access_state(DB, today, last.user) = "Active"
       /\ RowNow.is_locked = 0
       /\ RowNow.lock_end_date = NULL
       /\ RowNow.current_streak = 0
       /\ penalties = last.pre.penalties

\* C13: a confirmed emergency unlock, from Locked or from Active and with any
\* current_streak, appends exactly one penalty, of amount 50.0, and leaves
\* current_streak = 0, is_locked = false and lock_end_date absent.
C13_EmergencyUnlock ==
    last.op = "emergency_unlock"
    => /\ Len(penalties) = Len(last.pre.penalties) + 1
       /\ SubSeq(penalties, 1, Len(last.pre.penalties)) = last.pre.penalties
       /\ penalties[Len(penalties)].user_id = last.user
       /\ penalties[Len(penalties)].amount = 50
       /\ RowNow.current_streak = 0
       /\ RowNow.is_locked = 0
       /\ RowNow.lock_end_date = NULL

\* An emergency unlock has ended a running streak.
C13_Witness ==
    /\ last.op = "emergency_unlock"
    /\ RowBefore.current_streak >= 1
    /\ RowNow.current_streak = 0
    /\ Len(penalties) > Len(last.pre.penalties)

\* An emergency unlock is also made during the lock window.
C13_LockedReached ==
    ~(/\ last.op = "emergency_unlock"
      /\ access_state(last.pre, today, last.user) = "Locked")

\* The requests that upsert the daily record: every /api/checkin, and the
\* check-in page when the goals are met.
Upserted ==
    \/ last.op = "api_checkin"
    \/ last.op = "checkin_page" /\ last.goals_met

\* The daily record the last request asked the store to keep.
UpsertedRow ==
    [user_id |-> last.user, date |-> strftime(today),
     german_hours |-> Get(last.data, "german_hours", 0),
     tech_hours |-> Get(last.data, "tech_hours", 0),
     applications_sent |-> Get(last.data, "applications_sent", 0),
     words_learned |-> Get(last.data, "words_learned", 0),
     checkin_completed |-> IF last.goals_met THEN 1 ELSE 0]

\* C16: after any sequence of upserts made one after the other, daily_goals
\* holds at most one record for a (user, date), and that record carries the
\* metrics and checkin_completed of the most recent upsert for the pair: an
\* upsert leaves its own record and no other there, and every other pair keeps
\* the records it had.
C16_OneRecordLastUpsert ==
    /\ \A u \in Users, d \in 1..(MaxDate + 1) :
          Cardinality(GoalRowsAt(DB, u, d)) <= 1
    /\ last.op \notin {"none", "tick"} =>
          \A u \in Users, d \in 1..(MaxDate + 1) :
              IF Upserted /\ u = last.user /\ d = today
              THEN {daily_goals[i] : i \in GoalRowsAt(DB, u, d)} = {UpsertedRow}
              ELSE {daily_goals[i] : i \in GoalRowsAt(DB, u, d)}
                   = {last.pre.daily_goals[i] : i \in GoalRowsAt(last.pre, u, d)}

\* A second upsert of a date has replaced different metrics.
C16_Witness ==
    /\ Upserted
    /\ GoalRowsAt(last.pre, last.user, today) # {}
    /\ \A i \in GoalRowsAt(last.pre, last.user, today) :
          last.pre.daily_goals[i] # UpsertedRow
    /\ {daily_goals[i] : i \in GoalRowsAt(DB, last.user, today)} = {UpsertedRow}

\* C17: log_daily_goals reports success = true whenever the daily record was
\* stored, also when the goals were not met; success = false is kept for a
\* failed store write.
C17_SuccessWhenStored ==
    last.op = "api_checkin" /\ GoalRowsAt(DB, last.user, today) # {}
    => last.success

\* C19: add_penalty with an amount that is not strictly positive is rejected
\* and leaves the penalty ledger as it was.
C19_NonPositiveRejected ==
    last.op = "add_penalty" /\ last.data.amount <= 0
    => /\ ~last.success
       /\ penalties = last.pre.penalties

\* C20: in every reachable state of every user, lock_end_date is present
\* exactly when is_locked is true.
C20_LockEndIffLocked ==
    \A u \in Users : (users[u].lock_end_date # NULL) <=> (users[u].is_locked = 1)

\* C18: a check-in that loses one of its store writes (the upsert, the streak
\* update or the penalty insert) returns a failure to its caller, never the
\* normal Pass or Fail outcome.
C18_LostWriteIsFailure ==
    last.op = "log_daily_goals" /\ last.lost # {}
    => /\ ~last.success
       /\ last.message \notin {CompletedMsg, NotMetMsg}

\* With every write stored, log_daily_goals_store is log_daily_goals.
StoreAgreesWhenUp ==
    \A u \in Users, data \in UiForms :
        LET r == log_daily_goals_store(DB, today, u, data.german_hours, data.tech_hours, data.applications_sent, data.words_learned, {})
            q == log_daily_goals(DB, today, u, data.german_hours, data.tech_hours, data.applications_sent, data.words_learned)
        IN  r.db = q.db /\ r.ret = q.ret /\ r.lost = {}

\* The rows of the ledger that charge user u for an emergency unlock.
EmergencyCharges(u) ==
    {i \in DOMAIN penalties :
        /\ penalties[i].user_id = u
        /\ penalties[i].amount = 50
        /\ penalties[i].reason = "Emergency unlock"}

\* C14: in no reachable state, the states between the statements of an
\* emergency unlock included (what a request running beside it can read), has
\* the unlock cleared the lock while its 50.0 penalty is not yet recorded.
C14_NeverUnlockedUncharged ==
    \A p \in Procs :
        LET r == inflight[p]
            done == {r.writes[i] : i \in DOMAIN r.writes}
        IN  r.op = "emergency_unlock" /\ "reset_streak_and_unlock_db" \in done
            => /\ "add_penalty_db" \in done
               /\ EmergencyCharges(r.user) # {}

\* An emergency unlock of a Locked user is between its two writes: the penalty
\* is in the ledger and the lock is still set.
C14_Witness ==
    \E p \in Procs :
        /\ InFlight(p)
        /\ inflight[p].op = "emergency_unlock"
        /\ inflight[p].writes = <<"add_penalty_db">>
        /\ EmergencyCharges(inflight[p].user) # {}
        /\ access_state(DB, today, inflight[p].user) = "Locked"

\* Request r served alone, in one piece.
Alone(db, now, r) ==
    IF r.op = "emergency_unlock"
    THEN settings_page_emergency_unlock(db, now, r.user)
    ELSE api_checkin(db, now, r.user, r.data).db

\* No request is being served.
Quiescent == \A p \in Procs : ~InFlight(p)

\* C15: two check-ins of the same user served concurrently leave the user's
\* streak state as one of the two serial orders leaves it: no update is lost.
C15_ConcurrentCheckinsSerial ==
    /\ Quiescent
    /\ Len(episode.reqs) = 2
    /\ episode.reqs[1].op = "api_checkin"
    /\ episode.reqs[2].op = "api_checkin"
    /\ episode.reqs[1].user = episode.reqs[2].user
    => LET u == episode.reqs[1].user
           ab == Alone(Alone(episode.db0, today, episode.reqs[1]), today, episode.reqs[2])
           ba == Alone(Alone(episode.db0, today, episode.reqs[2]), today, episode.reqs[1])
       IN  users[u] \in {ab.users[u], ba.users[u]}

\* A request whose statements no other request interleaves leaves the tables
\* as the request served in one piece.
StepsAgreeWhenAlone ==
    Quiescent /\ Len(episode.reqs) = 1
    => DB = Alone(episode.db0, today, episode.reqs[1])

\* The last step served a request.
Requested == last.op \notin {"none", "tick"}

C22_LedgerAppendOnly ==
    Requested =>
        /\ Len(penalties) >= Len(last.pre.penalties)
        /\ \A i \in DOMAIN last.pre.penalties :
              /\ penalties[i].user_id = last.pre.penalties[i].user_id
              /\ penalties[i].amount = last.pre.penalties[i].amount
              /\ penalties[i].reason = last.pre.penalties[i].reason
              /\ penalties[i].date = last.pre.penalties[i].date

\* A penalty has been added for a user who had one already.
C22_Witness ==
    /\ Requested
    /\ Len(penalties) = Len(last.pre.penalties) + 1
    /\ \E i \in DOMAIN last.pre.penalties :
          last.pre.penalties[i].user_id = penalties[Len(penalties)].user_id

\* C23: check_daily_completion(user) is true exactly when a daily record has
\* been logged for the user for today: false before any log_daily_goals of
\* today, true after one, also when the metrics logged miss the goals.
C23_CompletionIffLogged ==
    \A u \in Users :
        check_daily_completion(DB, today, u) <=> GoalRowsAt(DB, u, today) # {}

\* Two requests overlapped and both have ended: a passing check-in and an
\* emergency unlock of the same user.
CheckinRacedUnlock ==
    /\ Quiescent
    /\ Len(episode.reqs) = 2
    /\ episode.reqs[1].user = episode.reqs[2].user
    /\ \E i, j \in {1, 2} :
          /\ episode.reqs[i].op = "api_checkin"
          /\ MetBy(episode.reqs[i].data)
          /\ episode.reqs[j].op = "emergency_unlock"

\* C24: a passing check-in that races an emergency unlock of the same user
\* leaves the user's streak state as one of the two serial orders leaves it
\* (check-in then unlock, or unlock then check-in): the check-in never writes
\* the row it read before the unlock over the unlock's reset.
C24_CheckinUnlockSerial ==
    CheckinRacedUnlock
    => LET u == episode.reqs[1].user
           ab == Alone(Alone(episode.db0, today, episode.reqs[1]), today, episode.reqs[2])
           ba == Alone(Alone(episode.db0, today, episode.reqs[2]), today, episode.reqs[1])
       IN  users[u] \in {ab.users[u], ba.users[u]}

\* C25: two upserts of the daily record of the same (user, date) that run
\* concurrently, their existence checks and their writes interleaved, leave at
\* most one daily_goals record for the (user, date).
C25_ConcurrentUpsertOneRecord ==
    \A u \in Users : Cardinality(GoalRowsAt(DB, u, today)) <= 1

\* C26: after an access check made for a user whose lock has expired
\* (is_locked true and today >= lock_end_date) the stored row has is_locked =
\* false and no lock_end_date, so the lock state read from the store (as
\* /api/user returns it) is correct.
C26_ExpiredLockCleared ==
    /\ last.op = "dashboard_page"
    /\ RowBefore.is_locked = 1
    /\ RowBefore.lock_end_date # NULL
    /\ today >= strptime(RowBefore.lock_end_date)
    => /\ RowNow.is_locked = 0
       /\ RowNow.lock_end_date = NULL

\* The milestone table of the check-in page.
MilestoneName(streak) ==
    CASE streak = 7 -> "Week Warrior"
      [] streak = 30 -> "Monthly Master"
      [] streak = 100 -> "Century Champion"
      [] streak = 365 -> "Yearly Legend"

\* The achievement rows the last request added.
NewAchievements ==
    SubSeq(achievements, Len(last.pre.achievements) + 1, Len(achievements))

\* C27: a passing check-in records an achievement only when the current_streak
\* it leaves is exactly 7, 30, 100 or 365, and then the one named for that
\* value; for every other streak value it records none.
C27_AchievementOnlyAtMilestone ==
    PassedCheckin
    => /\ SubSeq(achievements, 1, Len(last.pre.achievements)) = last.pre.achievements
       /\ IF RowNow.current_streak \in {7, 30, 100, 365}
          THEN NewAchievements \in
                  {<< >>, <<[user_id |-> last.user,
                             achievement_name |-> MilestoneName(RowNow.current_streak),
                             date_earned |-> strftime(today)]>>}
          ELSE NewAchievements = << >>

\* A passing check-in has left the streak at 7 and recorded Week Warrior.
C27_Witness ==
    /\ PassedCheckin
    /\ RowNow.current_streak = 7
    /\ Len(NewAchievements) = 1
    /\ NewAchievements[1].achievement_name = "Week Warrior"

\* A daily record of user u for date d carries a Pass.
PassRecorded(u, d) ==
    \E i \in GoalRowsAt(DB, u, d) : daily_goals[i].checkin_completed = 1

\* The number of consecutive dates ending at d with a Pass recorded for u.
RECURSIVE PassDaysEndingAt(_, _)
PassDaysEndingAt(u, d) ==
    IF d >= 1 /\ PassRecorded(u, d) THEN 1 + PassDaysEndingAt(u, d - 1) ELSE 0

\* The count in full, after every check-in and emergency unlock: current_streak
\* is the number of consecutive dates ending at last_checkin with a Pass
\* recorded, and 0 right after a Fail or an emergency unlock.
StreakIsConsecutivePasses ==
    /\ PassedCheckin
       => RowNow.current_streak
          = PassDaysEndingAt(last.user, strptime(RowNow.last_checkin))
    /\ FailedCheckin \/ last.op = "emergency_unlock"
       => RowNow.current_streak = 0

\* C28: current_streak is the number of consecutive calendar days ending at
\* last_checkin_date on each of which a Pass was recorded; in particular a
\* passing check-in that follows a day with no check-in does not extend a
\* streak across the gap: the day of the check-in is the only day counted and
\* current_streak is 1.
C28_NoStreakAcrossGap ==
    /\ last.op = "api_checkin"
    /\ last.goals_met
    /\ RowBefore.last_checkin # NULL
    /\ strptime(RowBefore.last_checkin) < today - 1
    => RowNow.current_streak = 1

\* The penalties recorded for user u on date d for goals not met.
MissedGoalPenalties(u, d) ==
    {i \in DOMAIN penalties :
        /\ penalties[i].user_id = u
        /\ penalties[i].date = strftime(d)
        /\ penalties[i].reason = "Daily goals not met"}

\* C29: for every user and date at most one penalty with reason "Daily goals
\* not met" is recorded, however many failing check-ins are submitted on the
\* date and through whichever entry path.
C29_OneMissedGoalPenaltyPerDate ==
    \A u \in Users, d \in 1..(MaxDate + 1) :
        Cardinality(MissedGoalPenalties(u, d)) <= 1

\* C30: the emergency unlock is all-or-nothing when store writes fail: when it
\* ends, either the 50.0 penalty is recorded and the lock is cleared with
\* current_streak = 0, or nothing was applied; the penalty is never recorded
\* while the user stays locked or keeps the streak.
C30_EmergencyUnlockAllOrNothing ==
    last.op = "settings_page_emergency_unlock"
    => \/ /\ penalties = Append(last.pre.penalties,
                                [user_id |-> last.user, amount |-> 50,
                                 reason |-> "Emergency unlock",
                                 date |-> strftime(today), paid |-> 0])
          /\ RowNow.current_streak = 0
          /\ RowNow.is_locked = 0
          /\ RowNow.lock_end_date = NULL
       \/ DB = last.pre

\* C31: a failing check-in is all-or-nothing when store writes fail: it ends
\* with the daily record, the Fail transition (lock, streak reset) and the
\* 10.0 penalty all applied, or with none of them; never locked without the
\* penalty, charged without the lock, or logged without the transition.
C31_FailAllOrNothing ==
    last.op = "log_daily_goals" /\ ~MetBy(last.data)
    => DB \in {last.pre,
               log_daily_goals(last.pre, today, last.user, last.data.german_hours,
                               last.data.tech_hours, last.data.applications_sent,
                               last.data.words_learned).db}

\* C33: every streak transition applied for a user on date d comes after a
\* successful upsert of the user's daily record for d, through the service/API
\* path and through the check-in page, for Pass and for Fail.
C33_TransitionAfterUpsert ==
    last.op \in CheckinOps /\ RowNow.last_checkin = strftime(today)
    => GoalRowsAt(DB, last.user, today) # {}

\* C34: in every stored daily record checkin_completed is true exactly when
\* the metrics stored in the record meet all four thresholds.
C34_CompletedIffThresholds ==
    \A i \in DOMAIN daily_goals :
        daily_goals[i].checkin_completed = 1
        <=> /\ daily_goals[i].german_hours >= 4
            /\ daily_goals[i].tech_hours >= 6
            /\ daily_goals[i].applications_sent >= 5
            /\ daily_goals[i].words_learned >= 50

\* Records are stored with the goals met and with the goals missed.
C34_Witness ==
    /\ last.op = "api_checkin"
    /\ \E i \in DOMAIN daily_goals :
          daily_goals[i].checkin_completed = 0 /\ daily_goals[i].german_hours >= 4

\* The rows of a table that belong to user u.
RowsOf(table, u) == SelectSeq(table, LAMBDA row : row.user_id = u)

\* C35: an operation performed for user A (check-in, achievement, redemption
\* unlock, emergency unlock) leaves the streak state, daily records, penalties
\* and achievements of every other user B unchanged.
C35_OtherUsersUntouched ==
    Requested =>
        \A b \in Users \ {last.user} :
            /\ users[b] = last.pre.users[b]
            /\ RowsOf(daily_goals, b) = RowsOf(last.pre.daily_goals, b)
            /\ RowsOf(penalties, b) = RowsOf(last.pre.penalties, b)
            /\ RowsOf(achievements, b) = RowsOf(last.pre.achievements, b)

\* A request has changed user A's row while user B is locked and has a record
\* and a penalty.
C35_Witness ==
    /\ Requested
    /\ RowNow # RowBefore
    /\ \E b \in Users \ {last.user} :
          /\ users[b].is_locked = 1
          /\ RowsOf(daily_goals, b) # << >>
          /\ RowsOf(penalties, b) # << >>

\* The Pass transitions the last request applied to its user: one by
\* log_daily_goals, and one more by the check-in page.
PassTransitions ==
    IF ~PassedCheckin THEN 0
    ELSE IF last.op = "checkin_page" THEN 2 ELSE 1

\* With requests served one after the other, current_streak <= total_streak
\* and total_streak grows by the Pass transitions of each request.
TotalCountsPassesSerially ==
    /\ \A u \in Users : users[u].current_streak <= users[u].total_streak
    /\ Requested =>
          \A u \in Users :
              users[u].total_streak
              = last.pre.users[u].total_streak
                + (IF u = last.user THEN PassTransitions ELSE 0)

\* The requests of the episode are passing check-ins of one user.
PassesOnly ==
    /\ episode.reqs # << >>
    /\ \A i \in DOMAIN episode.reqs :
          /\ episode.reqs[i].op = "api_checkin"
          /\ MetBy(episode.reqs[i].data)
          /\ episode.reqs[i].user = episode.reqs[1].user

\* C37: in every reachable state current_streak <= total_streak, and
\* total_streak is the number of Pass transitions applied to the user since
\* registration: every Pass adds exactly 1 and nothing else changes it.
C37_TotalCountsPasses ==
    /\ \A u \in Users : users[u].current_streak <= users[u].total_streak
    /\ Quiescent /\ PassesOnly
       => users[episode.reqs[1].user].total_streak
          = episode.db0.users[episode.reqs[1].user].total_streak + Len(episode.reqs)

\* The dates on which a Fail of user u was recorded.
FailDates(u) == {d \in 1..(MaxDate + 1) : MissedGoalPenalties(u, d) # {}}

\* C39: the dashboard gate never reports Locked for a row without
\* lock_end_date, also when is_locked is 1; whenever it reports Locked,
\* lock_end_date is present and is the date of the user's last Fail plus one
\* day.
C39_GateNeedsEndDate ==
    last.op = "dashboard_page"
    => /\ RowNow.lock_end_date = NULL => last.state # "Locked"
       /\ last.state = "Locked"
          => /\ RowNow.lock_end_date # NULL
             /\ \E d \in FailDates(last.user) :
                   /\ \A e \in FailDates(last.user) : e <= d
                   /\ RowNow.lock_end_date = strftime(d + timedelta_days)

\* The dashboard is opened for a row with is_locked = 1 and no lock_end_date
\* and is shown, not the lock page.
C39_Witness ==
    /\ last.op = "dashboard_page"
    /\ RowNow.is_locked = 1
    /\ RowNow.lock_end_date = NULL
    /\ last.state = "Active"

\* Thread p runs the UPDATE of its streak transition in this step.
Transits(p) ==
    /\ InFlight(p)
    /\ StepsOf(inflight[p])[inflight[p].pc] = "update_user_streak_data"
    /\ inflight'[p].pc = inflight[p].pc + 1

\* The five values the transition of request r is to leave, from the row the
\* request read.
PostTransition(r) ==
    IF MetBy(r.data)
    THEN [current_streak |-> r.row.current_streak + 1,
          total_streak |-> r.row.total_streak + 1,
          is_locked |-> r.row.is_locked,
          lock_end_date |-> NULL,
          last_checkin |-> strftime(today)]
    ELSE [current_streak |-> 0,
          total_streak |-> r.row.total_streak,
          is_locked |-> 1,
          lock_end_date |-> strftime(today + timedelta_days),
          last_checkin |-> strftime(today)]

\* C32: a reader of a user's streak state interleaved anywhere with a streak
\* transition sees the complete values from before the transition or the
\* complete values after it, never a mixture: the row goes from the one to
\* the other in a single step, and no other statement of a check-in touches it.
C32_TransitionSeenWhole ==
    [][\A p \in Procs :
          /\ Transits(p)
             => /\ users'[inflight[p].user] = PostTransition(inflight[p])
                /\ \A v \in Users \ {inflight[p].user} : users'[v] = users[v]
          /\ (/\ InFlight(p)
              /\ inflight[p].op = "api_checkin"
              /\ inflight'[p].pc = inflight[p].pc + 1
              /\ ~Transits(p))
             => users' = users]_vars

\* A Fail transition has been written while another request for the same
\* user is between its statements.
C32_Witness ==
    \E p \in Procs, q \in Procs :
        /\ p # q
        /\ inflight[p].op = "api_checkin" /\ ~MetBy(inflight[p].data)
        /\ inflight[p].writes # << >>
        /\ inflight[p].writes[Len(inflight[p].writes)] = "update_user_streak_data"
        /\ InFlight(q) /\ inflight[q].pc > 1
        /\ inflight[q].user = inflight[p].user
        /\ users[inflight[p].user] = PostTransition(inflight[p])

====
